---------------------------- MODULE Spec2Model ----------------------------
(***************************************************************************)
(* Model of the graph toolkit of src/graph.h and of the priority queue of  *)
(* src/prioqueue.h.                                                        *)
(*                                                                         *)
(* Every C++ function is an operator with the function's name, computed    *)
(* the way the function computes it (loops are recursions over the list    *)
(* the loop runs over, std::map is a function with a finite domain whose   *)
(* operator[] yields the value-initialised default for an absent key).     *)
(* An action is one call of a function of the toolkit; the two functions   *)
(* whose course depends on the order of equal priorities in the queue      *)
(* (prim, dijkstra) take one action per round of their main loop.          *)
(*                                                                         *)
(* Vertices are the integers 1 .. MaxV (V = int); V() is 0.                *)
(***************************************************************************)
EXTENDS Integers, Sequences, FiniteSets, TLC

VARIABLES
    pc,       \* position of the running call
    g,        \* the Graph / WeightedGraph handed to the call: [adj, wt]
    s,        \* the start vertex handed to the call (NIL when it takes none)
    res,      \* the result structure handed to the call by reference
    loc,      \* the locals of the running call
    out,      \* the value the call returns / its output parameter
    heap,     \* the Entry objects created by new: address -> [prio, data]
    entries,  \* PrioQueue::entries (per queue object in the queue specification)
    last,     \* the last queue call: its name, arguments, result, queue before
    hist,     \* per queue: number of inserts and of successful removals
    fault     \* a null pointer was dereferenced

vars == <<pc, g, s, res, loc, out, heap, entries, last, hist, fault>>

algVars == <<g, s, res, loc, out>>
pqVars == <<heap, entries, last, hist, fault>>

(***************************************************************************)
(* Bounds of the model.                                                    *)
(***************************************************************************)
MaxV == 3        \* vertices of an input graph
MaxE == 4        \* edges of an input graph
MaxWE == 2       \* edges of a weighted input graph
MaxAddr == 3     \* Entry objects new can create

(***************************************************************************)
(* Constants of the program.                                               *)
(***************************************************************************)
\* Pred::NIL = V()
NIL == 0
\* Dist::INF: numeric_limits<int>::max() for N = int; for N = uint and for
\* N = double (infinity) it stands for the value no finite distance reaches,
\* and Plus below adds to it as IEEE infinity adds.
INF == 2147483647

\* enum color { WHITE, GRAY, BLACK }; WHITE is the value-initialised colour.
WHITE == "WHITE"
GRAY == "GRAY"
BLACK == "BLACK"

(***************************************************************************)
(* std::map and std::list.                                                 *)
(***************************************************************************)
EmptyMap == [x \in {} |-> 0]

\* m[k] = v
Put(m, k, v) == IF k \in DOMAIN m THEN [m EXCEPT ![k] = v]
                ELSE [x \in (DOMAIN m) \cup {k} |-> IF x = k THEN v ELSE m[x]]

\* the value of m[k], d being the value-initialised default
Get(m, k, d) == IF k \in DOMAIN m THEN m[k] ELSE d

Min(S) == CHOOSE x \in S : \A y \in S : x <= y
Max(S) == CHOOSE x \in S : \A y \in S : y <= x

\* the keys of a map in iteration order (ascending)
RECURSIVE SortedSeq(_)
SortedSeq(S) == IF S = {} THEN <<>>
                ELSE <<Min(S)>> \o SortedSeq(S \ {Min(S)})

RECURSIVE Reverse(_)
Reverse(l) == IF l = <<>> THEN <<>> ELSE Append(Reverse(Tail(l)), Head(l))

Range(l) == {l[i] : i \in 1..Len(l)}

(***************************************************************************)
(* Graph<V>                                                                *)
(***************************************************************************)
\* Graph::vertices
Vertices(gr) == SortedSeq(DOMAIN gr.adj)

\* Graph::successors (adj[v] of an absent v is a new, empty list)
Successors(gr, v) == Get(gr.adj, v, <<>>)

\* WeightedGraph::weight (wt[{u, v}] of an absent pair is 0.0)
Weight(gr, u, v) == Get(gr.wt, <<u, v>>, 0)

RECURSIVE PairsFrom(_, _)
PairsFrom(u, vl) == IF vl = <<>> THEN <<>>
                    ELSE <<<<u, Head(vl)>>>> \o PairsFrom(u, Tail(vl))

\* the pairs (u, v) in the order the nested loops
\*     for (V u : vertices()) for (V v : successors(u))
\* visit them
RECURSIVE EdgesFrom(_, _)
EdgesFrom(gr, ul) == IF ul = <<>> THEN <<>>
                     ELSE PairsFrom(Head(ul), Successors(gr, Head(ul)))
                          \o EdgesFrom(gr, Tail(ul))

EdgeSeq(gr) == EdgesFrom(gr, Vertices(gr))

\* the body of the loops of transpose: a[v].push_back(u)
RECURSIVE TransposeLoop(_, _)
TransposeLoop(es, a) ==
    IF es = <<>> THEN a
    ELSE LET u == Head(es)[1]
             v == Head(es)[2]
         IN TransposeLoop(Tail(es), Put(a, v, Append(Get(a, v, <<>>), u)))

\* Graph::transpose
Transpose(gr) == [adj |-> TransposeLoop(EdgeSeq(gr), EmptyMap), wt |-> EmptyMap]

(***************************************************************************)
(* The input graphs: every graph with the vertices 1 .. n, n <= MaxV, at   *)
(* most MaxE edges, every successor a key of the table (the table holds    *)
(* the successor list of every vertex, graph.h:20-22), the successor lists *)
(* in every order.                                                         *)
(***************************************************************************)
RECURSIVE PermSeqs(_)
PermSeqs(S) == IF S = {} THEN {<<>>}
               ELSE UNION {{<<x>> \o p : p \in PermSeqs(S \ {x})} : x \in S}

EdgeSets(K) == {E \in SUBSET (K \X K) : Cardinality(E) <= MaxE}

RECURSIVE AdjMaps(_, _)
AdjMaps(K, E) ==
    IF K = {} THEN {EmptyMap}
    ELSE LET k == Max(K)
         IN {Put(m, k, p) : m \in AdjMaps(K \ {k}, E),
                            p \in PermSeqs({e[2] : e \in {x \in E : x[1] = k}})}

\* gr is one of the input graphs
IsInputGraph(gr) ==
    \E n \in 0..MaxV : \E E \in EdgeSets(1..n) : \E a \in AdjMaps(1..n, E) :
        gr = [adj |-> a, wt |-> EmptyMap]

NoQueue ==
    /\ heap = EmptyMap
    /\ entries = {}
    /\ last = [op |-> "none"]
    /\ hist = EmptyMap
    /\ fault = FALSE

(***************************************************************************)
(* Specification of transpose: t = g.transpose(), tt = t.transpose().      *)
(***************************************************************************)
InitTranspose ==
    /\ pc = "start"
    /\ IsInputGraph(g)
    /\ s = NIL
    /\ res = EmptyMap
    /\ loc = EmptyMap
    /\ out = <<>>
    /\ NoQueue

CallTranspose ==
    /\ pc = "start"
    /\ out' = <<Transpose(g)>>
    /\ pc' = "transposed"
    /\ UNCHANGED <<g, s, res, loc>>
    /\ UNCHANGED pqVars

CallTransposeAgain ==
    /\ pc = "transposed"
    /\ out' = Append(out, Transpose(out[1]))
    /\ pc' = "done"
    /\ UNCHANGED <<g, s, res, loc>>
    /\ UNCHANGED pqVars

NextTranspose == CallTranspose \/ CallTransposeAgain

SpecTranspose == InitTranspose /\ [][NextTranspose]_vars

\* the edges of a graph as a bag: (u, v) -> number of times v is in adj[u]
EdgeCount(gr, u, v) ==
    Cardinality({i \in 1..Len(Successors(gr, u)) : Successors(gr, u)[i] = v})

AllVertices(gr) ==
    (DOMAIN gr.adj) \cup UNION {Range(gr.adj[u]) : u \in DOMAIN gr.adj}

SameEdges(g1, g2) ==
    \A u, v \in AllVertices(g1) \cup AllVertices(g2) :
        EdgeCount(g1, u, v) = EdgeCount(g2, u, v)

Reversed(g1, g2) ==
    \A u, v \in AllVertices(g1) \cup AllVertices(g2) :
        EdgeCount(g1, u, v) = EdgeCount(g2, v, u)

\* C4: for every graph g, g.transpose() has the key set of g and every edge
\* of g reversed, and g.transpose().transpose() has the vertex set and the
\* edge multiset of g.
C4_TransposeKeepsVertices ==
    /\ pc \in {"transposed", "done"} =>
          /\ DOMAIN out[1].adj = DOMAIN g.adj
          /\ Reversed(g, out[1])
    /\ pc = "done" =>
          /\ DOMAIN out[2].adj = DOMAIN g.adj
          /\ SameEdges(g, out[2])

\* what transpose does keep: the edges, reversed; and the keys of the result
\* are the vertices that have an incoming edge in g.
TransposeReversesEdges ==
    pc \in {"transposed", "done"} =>
        /\ Reversed(g, out[1])
        /\ DOMAIN out[1].adj = {v \in DOMAIN g.adj : \E u \in DOMAIN g.adj : EdgeCount(g, u, v) > 0}

(***************************************************************************)
(* Reference notions the claims are stated with (not code of the toolkit). *)
(***************************************************************************)
Succ1(gr, S) == UNION {Range(Successors(gr, u)) : u \in S}

\* the vertices reached from S by at most k edges
RECURSIVE ReachWithin(_, _, _)
ReachWithin(gr, S, k) ==
    IF k = 0 THEN S ELSE ReachWithin(gr, S \cup Succ1(gr, S), k - 1)

Reach(gr, u) == ReachWithin(gr, {u}, Cardinality(AllVertices(gr)))

HopDist(gr, u, v) ==
    Min({k \in 0..Cardinality(AllVertices(gr)) : v \in ReachWithin(gr, {u}, k)})

Cyclic(gr) ==
    \E u \in AllVertices(gr) : \E w \in Succ1(gr, {u}) : u \in Reach(gr, w)

IsEdge(gr, u, v) == v \in Range(Successors(gr, u))

Occurrences(l, v) == Cardinality({i \in 1..Len(l) : l[i] = v})

Pos(l, v) == CHOOSE i \in 1..Len(l) : l[i] = v

(***************************************************************************)
(* Depth-first search                                                      *)
(***************************************************************************)
\* a DFS<V> as its constructor leaves it
NewDFS(sortedFlag) ==
    [sorted |-> sortedFlag, det |-> EmptyMap, fin |-> EmptyMap,
     color_map |-> EmptyMap, seq |-> <<>>]

Color(st, v) == Get(st.res.color_map, v, WHITE)

\* DFSVisit with the bug of DFSVisit_n: the vertex is appended to seq when
\* it is discovered, not when it is finished.
RECURSIVE DFSVisitEarly(_, _, _)
RECURSIVE DFSVisitLoopEarly(_, _, _)
DFSVisitLoopEarly(gr, ul, st) ==
    IF ul = <<>> \/ st.thrown THEN st
    ELSE LET u == Head(ul)
             a == IF Color(st, u) = WHITE THEN DFSVisitEarly(gr, u, st) ELSE st
             b == IF ~a.thrown /\ Color(a, u) = GRAY /\ a.res.sorted
                  THEN [a EXCEPT !.thrown = TRUE] ELSE a
         IN DFSVisitLoopEarly(gr, Tail(ul), b)

DFSVisitEarly(gr, v, st) ==
    LET a == [st EXCEPT !.res.color_map = Put(@, v, GRAY),
                        !.time = @ + 1,
                        !.res.det = Put(@, v, st.time + 1),
                        !.res.seq = Append(@, v)]
        b == DFSVisitLoopEarly(gr, Successors(gr, v), a)
    IN IF b.thrown THEN b
       ELSE [b EXCEPT !.res.color_map = Put(@, v, BLACK),
                      !.time = @ + 1,
                      !.res.fin = Put(@, v, b.time + 1)]

\* DFSVisit(g, v, time, res); st = [res, time, thrown], thrown being set by
\* `throw false`, which leaves every loop and every call on the way out.
RECURSIVE DFSVisit(_, _, _)
RECURSIVE DFSVisitLoop(_, _, _)
\* for (auto u : g.successors(v)) { ... }
DFSVisitLoop(gr, ul, st) ==
    IF ul = <<>> \/ st.thrown THEN st
    ELSE LET u == Head(ul)
             a == IF Color(st, u) = WHITE THEN DFSVisit(gr, u, st) ELSE st
             b == IF ~a.thrown /\ Color(a, u) = GRAY /\ a.res.sorted
                  THEN [a EXCEPT !.thrown = TRUE] ELSE a
         IN DFSVisitLoop(gr, Tail(ul), b)

DFSVisit(gr, v, st) ==
    LET a == [st EXCEPT !.res.color_map = Put(@, v, GRAY),
                        !.time = @ + 1,
                        !.res.det = Put(@, v, st.time + 1)]
        b == DFSVisitLoop(gr, Successors(gr, v), a)
    IN IF b.thrown THEN b
       ELSE [b EXCEPT !.res.color_map = Put(@, v, BLACK),
                      !.time = @ + 1,
                      !.res.fin = Put(@, v, b.time + 1),
                      !.res.seq = Append(@, v)]

\* for (auto v : g.vertices()) { color_map[v] = WHITE; det[v] = 0; fin[v] = 0; }
RECURSIVE DfsInitLoop(_, _)
DfsInitLoop(vl, r) ==
    IF vl = <<>> THEN r
    ELSE DfsInitLoop(Tail(vl),
                     [r EXCEPT !.color_map = Put(@, Head(vl), WHITE),
                               !.det = Put(@, Head(vl), 0),
                               !.fin = Put(@, Head(vl), 0)])

\* for (auto v : ...) if (color_map[v] == WHITE) DFSVisit(g, v, time, res);
RECURSIVE DfsMainLoop(_, _, _)
DfsMainLoop(gr, vl, st) ==
    IF vl = <<>> \/ st.thrown THEN st
    ELSE DfsMainLoop(gr, Tail(vl),
                     IF Color(st, Head(vl)) = WHITE
                     THEN DFSVisit(gr, Head(vl), st) ELSE st)

\* dfs(g, res)
Dfs(gr, r) ==
    DfsMainLoop(gr, Vertices(gr),
                [res |-> DfsInitLoop(Vertices(gr), r), time |-> 0, thrown |-> FALSE])

\* dfs(g, vs, res)
DfsFrom(gr, vl, r) ==
    DfsMainLoop(gr, vl,
                [res |-> DfsInitLoop(Vertices(gr), r), time |-> 0, thrown |-> FALSE])

(***************************************************************************)
(* Specification of dfs: one call of dfs(g, res) or of dfs(g, vs, res),    *)
(* vs any order of the vertices, on a new DFS (sorted = false).            *)
(***************************************************************************)
InitDfs ==
    /\ pc = "start"
    /\ IsInputGraph(g)
    /\ s = NIL
    /\ res = NewDFS(FALSE)
    /\ loc = [entry |-> "none", vs |-> <<>>]
    /\ out = <<>>
    /\ NoQueue

CallDfs ==
    /\ pc = "start"
    /\ res' = Dfs(g, res).res
    /\ loc' = [entry |-> "dfs", vs |-> Vertices(g)]
    /\ pc' = "done"
    /\ UNCHANGED <<g, s, out>>
    /\ UNCHANGED pqVars

CallDfsFrom ==
    /\ pc = "start"
    /\ \E vl \in PermSeqs(DOMAIN g.adj) :
          /\ res' = DfsFrom(g, vl, res).res
          /\ loc' = [entry |-> "dfs_vs", vs |-> vl]
    /\ pc' = "done"
    /\ UNCHANGED <<g, s, out>>
    /\ UNCHANGED pqVars

NextDfs == CallDfs \/ CallDfsFrom

SpecDfs == InitDfs /\ [][NextDfs]_vars

Nested(r, u, v) == r.det[u] < r.det[v] /\ r.fin[v] < r.fin[u]
Disjoint(r, u, v) == r.fin[u] < r.det[v]

\* C8: after dfs(g, res) and after dfs(g, vs, res), cycle detection off, every
\* vertex has 1 <= det < fin <= 2|V|, the 2|V| stamps are distinct, the
\* intervals of two vertices are disjoint or one strictly contains the other,
\* and seq lists every vertex exactly once in ascending fin order.
C8_Parenthesis ==
    pc = "done" =>
        LET V == DOMAIN g.adj
        IN /\ DOMAIN res.det = V /\ DOMAIN res.fin = V
           /\ \A v \in V : 1 <= res.det[v] /\ res.det[v] < res.fin[v]
                           /\ res.fin[v] <= 2 * Cardinality(V)
           /\ Cardinality({res.det[v] : v \in V} \cup {res.fin[v] : v \in V})
                 = 2 * Cardinality(V)
           /\ \A u, v \in V : u # v =>
                 \/ Nested(res, u, v) \/ Nested(res, v, u)
                 \/ Disjoint(res, u, v) \/ Disjoint(res, v, u)
           /\ Len(res.seq) = Cardinality(V)
           /\ \A v \in V : Occurrences(res.seq, v) = 1
           /\ \A i, j \in 1..Len(res.seq) :
                 i < j => res.fin[res.seq[i]] < res.fin[res.seq[j]]

\* a call of dfs(g, vs, res) that starts at a vertex other than the first
\* key, has finished, and has nested as well as disjoint intervals
C8_Witness ==
    /\ pc = "done"
    /\ loc.entry = "dfs_vs"
    /\ loc.vs # Vertices(g)
    /\ \E u, v \in DOMAIN g.adj : u # v /\ Nested(res, u, v)
    /\ \E u, v \in DOMAIN g.adj : u # v /\ Disjoint(res, u, v)

(***************************************************************************)
(* Topological sort                                                        *)
(***************************************************************************)
\* topsort(g, seq): the value returned and seq afterwards
Topsort(gr, seq0) ==
    LET st == Dfs(gr, NewDFS(TRUE))
    IN IF st.thrown THEN [ret |-> FALSE, seq |-> seq0]
       ELSE [ret |-> TRUE, seq |-> st.res.seq]

InitTopsort ==
    /\ pc = "start"
    /\ IsInputGraph(g)
    /\ s = NIL
    /\ res = EmptyMap
    /\ loc = EmptyMap
    /\ out = [ret |-> FALSE, seq |-> <<>>]
    /\ NoQueue

CallTopsort ==
    /\ pc = "start"
    /\ out' = Topsort(g, out.seq)
    /\ pc' = "done"
    /\ UNCHANGED <<g, s, res, loc>>
    /\ UNCHANGED pqVars

NextTopsort == CallTopsort

SpecTopsort == InitTopsort /\ [][NextTopsort]_vars

EveryVertexOnce(gr, l) ==
    /\ \A v \in DOMAIN gr.adj : Occurrences(l, v) = 1
    /\ Len(l) = Cardinality(DOMAIN gr.adj)

TopsortFinishOrder ==
    pc = "done" =>
        /\ out.ret = ~Cyclic(g)
        /\ out.ret =>
              /\ EveryVertexOnce(g, out.seq)
              /\ \A u, v \in DOMAIN g.adj :
                    IsEdge(g, u, v) => Pos(out.seq, v) < Pos(out.seq, u)

(***************************************************************************)
(* Strongly connected components                                           *)
(***************************************************************************)
\* the loop of scc over scc_list; a = [res, l, merker_det, merker_fin]
RECURSIVE SccLoop(_, _, _)
SccLoop(vl, r2, a) ==
    IF vl = <<>> THEN a
    ELSE LET v == Head(vl)
             dv == Get(r2.det, v, 0)
             fv == Get(r2.fin, v, 0)
             b == IF a.merker_det = -1 /\ a.merker_fin = -1
                  THEN [a EXCEPT !.merker_det = dv, !.merker_fin = fv]
                  ELSE a
             c == IF dv >= b.merker_det /\ b.merker_fin >= fv
                  THEN [b EXCEPT !.l = Append(@, v)]
                  ELSE [res |-> <<b.l>> \o b.res, l |-> <<v>>,
                        merker_det |-> dv, merker_fin |-> fv]
         IN SccLoop(Tail(vl), r2, c)

\* scc(g, res): res afterwards
Scc(gr, res0) ==
    LET res1 == Dfs(gr, NewDFS(FALSE)).res
        seq == Reverse(res1.seq)
        res2 == DfsFrom(Transpose(gr), seq, NewDFS(FALSE)).res
        scc_list == Reverse(res2.seq)
        a == SccLoop(scc_list, res2,
                     [res |-> res0, l |-> <<>>, merker_det |-> -1, merker_fin |-> -1])
    IN <<a.l>> \o a.res

InitScc ==
    /\ pc = "start"
    /\ IsInputGraph(g)
    /\ s = NIL
    /\ res = <<>>
    /\ loc = EmptyMap
    /\ out = <<>>
    /\ NoQueue

CallScc ==
    /\ pc = "start"
    /\ res' = Scc(g, res)
    /\ pc' = "done"
    /\ UNCHANGED <<g, s, loc, out>>
    /\ UNCHANGED pqVars

NextScc == CallScc

SpecScc == InitScc /\ [][NextScc]_vars

MutuallyReachable(gr, u, v) == v \in Reach(gr, u) /\ u \in Reach(gr, v)

\* two vertices are in one list of ll exactly if each reaches the other, and
\* every vertex of the graph is in exactly one place of exactly one list
GroupsAreComponents(gr, ll) ==
    /\ \A v \in DOMAIN gr.adj :
          Cardinality({<<i, j>> \in (1..Len(ll)) \X (1..MaxV + 1) :
                          j <= Len(ll[i]) /\ ll[i][j] = v}) = 1
    /\ \A i \in 1..Len(ll) : Range(ll[i]) \subseteq DOMAIN gr.adj
    /\ \A u, v \in DOMAIN gr.adj :
          MutuallyReachable(gr, u, v) <=> \E i \in 1..Len(ll) : {u, v} \subseteq Range(ll[i])

\* C5: scc(g, res) with an empty res leaves in res a partition of the
\* vertices into non-empty lists, two vertices in one list exactly if each
\* is reachable from the other.
C5_SccPartition ==
    pc = "done" =>
        /\ \A i \in 1..Len(res) : res[i] # <<>>
        /\ GroupsAreComponents(g, res)

\* what scc does: on a graph with at least one vertex the lists are the
\* strongly connected components; on the graph without vertices res is one
\* empty list.
SccOnNonEmptyGraph ==
    pc = "done" =>
        /\ GroupsAreComponents(g, res)
        /\ IF DOMAIN g.adj = {} THEN res = << <<>> >>
           ELSE \A i \in 1..Len(res) : res[i] # <<>>

(***************************************************************************)
(* Breadth-first search                                                    *)
(***************************************************************************)
\* for (auto v : g.vertices()) { res.dist[v] = res.INF; res.pred[v] = res.NIL; }
RECURSIVE DistPredInitLoop(_, _)
DistPredInitLoop(vl, r) ==
    IF vl = <<>> THEN r
    ELSE DistPredInitLoop(Tail(vl),
                          [r EXCEPT !.dist = Put(@, Head(vl), INF),
                                    !.pred = Put(@, Head(vl), NIL)])

\* BfsForLoop that marks a vertex when it is taken from the queue only:
\* the test reads pred instead of dist, so the start vertex is found again
RECURSIVE BfsForLoopPred(_, _, _)
BfsForLoopPred(ul, u, a) ==
    IF ul = <<>> THEN a
    ELSE LET v == Head(ul)
         IN BfsForLoopPred(Tail(ul), u,
               IF Get(a.res.pred, v, NIL) = NIL
               THEN [q |-> Append(a.q, v),
                     res |-> [a.res EXCEPT !.dist = Put(@, v, Get(a.res.dist, u, 0) + 1),
                                           !.pred = Put(@, v, u)]]
               ELSE a)

\* for (auto v : g.successors(u)) { if (res.dist[v] == res.INF) ... }
\* a = [q, res]
RECURSIVE BfsForLoop(_, _, _)
BfsForLoop(ul, u, a) ==
    IF ul = <<>> THEN a
    ELSE LET v == Head(ul)
         IN BfsForLoop(Tail(ul), u,
               IF Get(a.res.dist, v, 0) = INF
               THEN [q |-> Append(a.q, v),
                     res |-> [a.res EXCEPT !.dist = Put(@, v, Get(a.res.dist, u, 0) + 1),
                                           !.pred = Put(@, v, u)]]
               ELSE a)

\* while (q.size() != 0) { u = q.front(); q.pop_front(); for ... }
RECURSIVE BfsWhileLoop(_, _)
BfsWhileLoop(gr, a) ==
    IF a.q = <<>> THEN a
    ELSE LET u == Head(a.q)
         IN BfsWhileLoop(gr, BfsForLoop(Successors(gr, u), u,
                                        [a EXCEPT !.q = Tail(@)]))

\* a BFS<V> / SP<V> as its constructor leaves it
NewPredDist == [pred |-> EmptyMap, dist |-> EmptyMap]

\* bfs(g, s, res)
Bfs(gr, src, r) ==
    LET r1 == DistPredInitLoop(Vertices(gr), r)
        r2 == [r1 EXCEPT !.dist = Put(@, src, 0)]
    IN BfsWhileLoop(gr, [q |-> <<src>>, res |-> r2]).res

InitBfs ==
    /\ pc = "start"
    /\ IsInputGraph(g)
    /\ s \in DOMAIN g.adj
    /\ res = NewPredDist
    /\ loc = EmptyMap
    /\ out = <<>>
    /\ NoQueue

CallBfs ==
    /\ pc = "start"
    /\ res' = Bfs(g, s, res)
    /\ pc' = "done"
    /\ UNCHANGED <<g, s, loc, out>>
    /\ UNCHANGED pqVars

NextBfs == CallBfs

SpecBfs == InitBfs /\ [][NextBfs]_vars

\* C6: after bfs(g, s, res) every vertex v reachable from s has dist[v] = the
\* least number of edges of a path from s to v and, if v # s, pred[v] = u for
\* an edge u -> v with dist[u] + 1 = dist[v]; every other vertex has
\* dist = INF and pred = NIL.
C6_BfsShortestHops ==
    pc = "done" =>
        /\ DOMAIN res.dist = DOMAIN g.adj
        /\ DOMAIN res.pred = DOMAIN g.adj
        /\ \A v \in DOMAIN g.adj :
              IF v \in Reach(g, s)
              THEN /\ res.dist[v] = HopDist(g, s, v)
                   /\ v # s => /\ res.pred[v] \in DOMAIN g.adj
                               /\ IsEdge(g, res.pred[v], v)
                               /\ res.dist[res.pred[v]] + 1 = res.dist[v]
              ELSE res.dist[v] = INF /\ res.pred[v] = NIL

\* a finished search on a graph with a cycle through s and a vertex two
\* edges away from s
C6_Witness ==
    /\ pc = "done"
    /\ \E w \in Succ1(g, {s}) : w # s /\ s \in Reach(g, w)
    /\ \E v \in DOMAIN g.adj :
          /\ res.dist[v] = 2
          /\ res.pred[v] \in Succ1(g, {s})

(***************************************************************************)
(* Weighted input graphs: the WeightedGraph its constructor builds from an *)
(* extended adjacency table with the vertices 1 .. n <= N, at most M edges, *)
(* no edge twice, the weights taken from W (integer-valued doubles).       *)
(***************************************************************************)
WEdgeSets(K, M) == {E \in SUBSET (K \X K) : Cardinality(E) <= M}

IsWeightedInput(gr, N, M, W) ==
    \E n \in 1..N : \E E \in WEdgeSets(1..n, M) : \E a \in AdjMaps(1..n, E) :
        \E w \in [E -> W] : gr = [adj |-> a, wt |-> w]

\* a + b for doubles, a possibly infinite, b finite
Plus(a, b) == IF a = INF THEN INF ELSE a + b

(***************************************************************************)
(* Reference notions for weighted graphs (not code of the toolkit).        *)
(***************************************************************************)
\* the sequences of distinct vertices that follow edges of gr
SimplePaths(gr) ==
    {p \in UNION {PermSeqs(S) : S \in (SUBSET DOMAIN gr.adj) \ {{}}} :
        \A i \in 1..(Len(p) - 1) : IsEdge(gr, p[i], p[i + 1])}

RECURSIVE PathWeight(_, _)
PathWeight(gr, p) ==
    IF Len(p) <= 1 THEN 0
    ELSE Weight(gr, p[1], p[2]) + PathWeight(gr, Tail(p))

\* sp = SimplePaths(gr)
MinPathWeight(gr, sp, u, v) ==
    Min({PathWeight(gr, p) : p \in {x \in sp : x[1] = u /\ x[Len(x)] = v}})

NegativeCycleReachable(gr, sp, u) ==
    \E p \in sp :
        /\ p[1] \in Reach(gr, u)
        /\ IsEdge(gr, p[Len(p)], p[1])
        /\ PathWeight(gr, p) + Weight(gr, p[Len(p)], p[1]) < 0

\* d[v] is the least weight of a path from src to v, INF if there is none
ShortestDistances(gr, sp, src, d) ==
    \A v \in DOMAIN gr.adj :
        d[v] = IF v \in Reach(gr, src) THEN MinPathWeight(gr, sp, src, v) ELSE INF

(***************************************************************************)
(* Bellman-Ford                                                            *)
(***************************************************************************)
\* hilfsfunktion whose sum wraps: INF plus a weight is not INF
hilfsfunktionWrap(r, v, u, gr) ==
    IF Get(r.dist, u, 0) + Weight(gr, u, v) < Get(r.dist, v, 0)
    THEN [r EXCEPT !.dist = Put(@, v, Get(r.dist, u, 0) + Weight(gr, u, v)),
                   !.pred = Put(@, v, u)]
    ELSE r

\* hilfsfunktion(res, v, u, g)
hilfsfunktion(r, v, u, gr) ==
    IF Plus(Get(r.dist, u, 0), Weight(gr, u, v)) < Get(r.dist, v, 0)
    THEN [r EXCEPT !.dist = Put(@, v, Plus(Get(r.dist, u, 0), Weight(gr, u, v))),
                   !.pred = Put(@, v, u)]
    ELSE r

\* for (auto u : g.vertices()) for (auto v : g.successors(u)) hilfsfunktion(res, v, u, g);
RECURSIVE RelaxLoop(_, _, _)
RelaxLoop(es, r, gr) ==
    IF es = <<>> THEN r
    ELSE RelaxLoop(Tail(es), hilfsfunktion(r, Head(es)[2], Head(es)[1], gr), gr)

\* for (int i = 0; i < (anzahl - 1); i++) { ... }, k = anzahl - 1 - i
RECURSIVE RoundsLoop(_, _, _)
RoundsLoop(k, r, gr) ==
    IF k <= 0 THEN r ELSE RoundsLoop(k - 1, RelaxLoop(EdgeSeq(gr), r, gr), gr)

\* the last loops of bellmanFord: true unless an edge still improves
CheckLoop(es, r, gr) ==
    ~ \E i \in 1..Len(es) :
          Plus(Get(r.dist, es[i][1], 0), Weight(gr, es[i][1], es[i][2]))
             < Get(r.dist, es[i][2], 0)

\* bellmanFord(g, s, res): the value returned and res afterwards
bellmanFord(gr, src, r) ==
    LET anzahl == Len(Vertices(gr))
        r1 == DistPredInitLoop(Vertices(gr), r)
        r2 == [r1 EXCEPT !.dist = Put(@, src, 0)]
        r3 == RoundsLoop(anzahl - 1, r2, gr)
    IN [ret |-> CheckLoop(EdgeSeq(gr), r3, gr), res |-> r3]

InitBellmanFord ==
    /\ pc = "start"
    /\ IsWeightedInput(g, MaxV, MaxWE, {-1, 1, 2})
    /\ s \in DOMAIN g.adj
    /\ res = NewPredDist
    /\ loc = EmptyMap
    /\ out = FALSE
    /\ NoQueue

CallBellmanFord ==
    /\ pc = "start"
    /\ LET r == bellmanFord(g, s, res)
       IN res' = r.res /\ out' = r.ret
    /\ pc' = "done"
    /\ UNCHANGED <<g, s, loc>>
    /\ UNCHANGED pqVars

NextBellmanFord == CallBellmanFord

SpecBellmanFord == InitBellmanFord /\ [][NextBellmanFord]_vars

\* C7: bellmanFord(g, s, res) returns false exactly if a cycle of negative
\* weight is reachable from s; when it returns true, dist[v] is the least
\* weight of a path from s to v, INF if there is none.
C7_BellmanFord ==
    pc = "done" =>
        LET sp == SimplePaths(g)
        IN /\ (out = FALSE) <=> NegativeCycleReachable(g, sp, s)
           /\ out = TRUE => /\ DOMAIN res.dist = DOMAIN g.adj
                            /\ ShortestDistances(g, sp, s, res.dist)

\* a call that returned true with a shortest path of two edges whose second
\* edge has a negative weight and comes first in the order of relaxation
C7_Witness ==
    /\ pc = "done"
    /\ out = TRUE
    /\ \E u, v \in DOMAIN g.adj :
          /\ v < u /\ u < s
          /\ res.pred[v] = u /\ res.pred[u] = s
          /\ Weight(g, u, v) < 0
          /\ res.dist[v] = res.dist[u] + Weight(g, u, v)

(***************************************************************************)
(* PrioQueue<P, D>.  An Entry* is the address new returned, 0 the null     *)
(* pointer; h maps the address of every Entry to its [prio, data].         *)
(***************************************************************************)
\* LessThan::operator() that finds entries of equal priority equivalent
LessThanNoTie(h, e1, e2) == h[e1].prio < h[e2].prio

\* LessThan::operator()
LessThan(h, e1, e2) ==
    IF h[e1].prio < h[e2].prio THEN TRUE
    ELSE IF h[e2].prio < h[e1].prio THEN FALSE
    ELSE e1 < e2

\* the equivalence std::set derives from its comparator
Equivalent(h, e1, e2) == ~LessThan(h, e1, e2) /\ ~LessThan(h, e2, e1)

\* std::set::count(e)
SetCount(S, h, e) == Cardinality({x \in S : Equivalent(h, x, e)})

\* std::set::insert(e): no effect if an equivalent element is in the set
SetInsert(S, h, e) == IF SetCount(S, h, e) > 0 THEN S ELSE S \cup {e}

\* std::set::erase(e): the set afterwards (erase returns count(e))
SetErase(S, h, e) == S \ {x \in S : Equivalent(h, x, e)}

\* *entries.begin()
SetBegin(S, h) == CHOOSE e \in S : \A o \in S \ {e} : LessThan(h, e, o)

\* a queue is Q = [entries, heap]
\* PrioQueue::isEmpty
isEmpty(Q) == Q.entries = {}

\* PrioQueue::insert, a the address of the new Entry
insert(Q, a, p, d) ==
    LET h == Put(Q.heap, a, [prio |-> p, data |-> d])
    IN [entries |-> SetInsert(Q.entries, h, a), heap |-> h]

\* PrioQueue::minimum
minimum(Q) == IF Q.entries = {} THEN 0 ELSE SetBegin(Q.entries, Q.heap)

\* entries.erase(entries.begin()) of extractMinimum, e being *entries.begin()
EraseBegin(Q, e) == [Q EXCEPT !.entries = @ \ {e}]

\* PrioQueue::contains
contains(Q, e) == SetCount(Q.entries, Q.heap, e) > 0

\* PrioQueue::remove: [q |-> the queue afterwards, ret |-> the value returned]
remove(Q, e) ==
    [q |-> [Q EXCEPT !.entries = SetErase(Q.entries, Q.heap, e)],
     ret |-> SetCount(Q.entries, Q.heap, e) > 0]

\* PrioQueue::changePrio
changePrio(Q, e, p) ==
    IF ~remove(Q, e).ret THEN [q |-> Q, ret |-> FALSE]
    ELSE LET h == [Q.heap EXCEPT ![e].prio = p]
         IN [q |-> [entries |-> SetInsert(remove(Q, e).q.entries, h, e), heap |-> h],
             ret |-> TRUE]

\* The addresses new returns are not fixed by the program, so the order of
\* LessThan among entries of equal priority is the order of any placement of
\* the entries.  prim and dijkstra never look at a minimum they do not
\* extract, and an extracted entry never returns to the queue; every
\* sequence of choices among the entries of least priority is therefore the
\* sequence of extractions under some placement.  These are the entries
\* *entries.begin() can be.
MinimumCandidates(Q) ==
    {e \in Q.entries : \A o \in Q.entries : ~(Q.heap[o].prio < Q.heap[e].prio)}

\* Entries of equal priority and equal data differ in their address only,
\* which the callers never read: the one created first stands for them all.
Representatives(Q, C) ==
    {e \in C : \A o \in C : Q.heap[o] = Q.heap[e] => e <= o}

\* the address of the next Entry in the specifications of prim and dijkstra
NextAddress(Q) == Cardinality(DOMAIN Q.heap) + 1

(***************************************************************************)
(* Dijkstra                                                                *)
(***************************************************************************)
\* for (auto v : g.vertices()) { dist[v] = INF; pred[v] = NIL; Prio.insert(dist[v], v); }
\* a = [res, Prio]
RECURSIVE DijkstraFirstLoop(_, _)
DijkstraFirstLoop(vl, a) ==
    IF vl = <<>> THEN a
    ELSE LET v == Head(vl)
             r == [a.res EXCEPT !.dist = Put(@, v, INF), !.pred = Put(@, v, NIL)]
         IN DijkstraFirstLoop(Tail(vl),
               [res |-> r, Prio |-> insert(a.Prio, NextAddress(a.Prio), r.dist[v], v)])

\* for (auto v : g.vertices()) { e = Prio.insert(res.dist[v], v); }
RECURSIVE DijkstraSecondLoop(_, _)
DijkstraSecondLoop(vl, a) ==
    IF vl = <<>> THEN a
    ELSE LET v == Head(vl)
         IN DijkstraSecondLoop(Tail(vl),
               [a EXCEPT !.Prio = insert(@, NextAddress(a.Prio), Get(a.res.dist, v, 0), v)])

\* for (auto v : g.successors(u)) { if (...) { ...; Prio.changePrio(e, res.dist[v]); } }
RECURSIVE DijkstraForLoop(_, _, _, _, _)
DijkstraForLoop(ul, u, e, a, gr) ==
    IF ul = <<>> THEN a
    ELSE LET v == Head(ul)
             d == Plus(Get(a.res.dist, u, 0), Weight(gr, u, v))
         IN DijkstraForLoop(Tail(ul), u, e,
               IF d < Get(a.res.dist, v, 0)
               THEN [res |-> [a.res EXCEPT !.dist = Put(@, v, d), !.pred = Put(@, v, u)],
                     Prio |-> changePrio(a.Prio, e, d).q]
               ELSE a,
               gr)

Prio == [entries |-> entries, heap |-> heap]

InitDijkstra ==
    /\ pc = "start"
    /\ IsWeightedInput(g, MaxV + 1, MaxWE + 1, {0, 1})
    /\ s \in DOMAIN g.adj
    /\ res = NewPredDist
    /\ loc = EmptyMap
    /\ out = <<>>
    /\ NoQueue

\* dijkstra up to its while loop
DijkstraSetup ==
    /\ pc = "start"
    /\ LET a == DijkstraFirstLoop(Vertices(g), [res |-> res, Prio |-> Prio])
           b == [a EXCEPT !.res.dist = Put(@, s, 0)]
           c == DijkstraSecondLoop(Vertices(g), b)
       IN /\ res' = c.res
          /\ heap' = c.Prio.heap
          /\ entries' = c.Prio.entries
    /\ pc' = "while"
    /\ UNCHANGED <<g, s, loc, out, last, hist, fault>>

\* one round of the while loop of dijkstra
DijkstraRound ==
    /\ pc = "while"
    /\ ~isEmpty(Prio)
    /\ \E e \in Representatives(Prio, MinimumCandidates(Prio)) :
          LET u == heap[e].data
              a == DijkstraForLoop(Successors(g, u), u, e,
                                   [res |-> res, Prio |-> EraseBegin(Prio, e)], g)
          IN /\ res' = a.res
             /\ heap' = a.Prio.heap
             /\ entries' = a.Prio.entries
    /\ UNCHANGED <<pc, g, s, loc, out, last, hist, fault>>

DijkstraReturn ==
    /\ pc = "while"
    /\ isEmpty(Prio)
    /\ pc' = "done"
    /\ UNCHANGED <<g, s, res, loc, out>>
    /\ UNCHANGED pqVars

NextDijkstra == DijkstraSetup \/ DijkstraRound \/ DijkstraReturn

SpecDijkstra == InitDijkstra /\ [][NextDijkstra]_vars

\* C2: on a graph without negative weights dijkstra(g, s, r1) and
\* bellmanFord(g, s, r2) end with r1.dist[v] = r2.dist[v] for every vertex v,
\* the shortest distance from s, whatever the order in which entries of equal
\* priority leave the queue.
C2_DijkstraEqualsBellmanFord ==
    pc = "done" =>
        /\ \A v \in DOMAIN g.adj :
              res.dist[v] = bellmanFord(g, s, NewPredDist).res.dist[v]
        /\ ShortestDistances(g, SimplePaths(g), s, res.dist)

\* what dijkstra does guarantee: dist[v] is INF or the weight of a path from
\* s to v, so never less than the shortest distance
DijkstraUpperBound ==
    pc = "done" =>
        \A v \in DOMAIN g.adj :
            /\ res.dist[v] >= bellmanFord(g, s, NewPredDist).res.dist[v]
            /\ v \notin Reach(g, s) => res.dist[v] = INF

\* no call of changePrio in dijkstra ever changes the queue: every entry
\* keeps the priority it was inserted with
DijkstraNeverDecreasesKey ==
    pc \in {"while", "done"} =>
        \A e \in DOMAIN heap : heap[e].prio = IF e = Cardinality(DOMAIN g.adj) + s THEN 0 ELSE INF

(***************************************************************************)
(* Prim                                                                    *)
(***************************************************************************)
\* the undirected graphs prim is meant for: vertices 1 .. n <= N, connected,
\* every edge in both directions with the same weight from W
UndirectedEdges(K) == {e \in K \X K : e[1] < e[2]}

BothWays(U) == U \cup {<<e[2], e[1]>> : e \in U}

RECURSIVE ConnectedWithin(_, _, _)
ConnectedWithin(U, S, k) ==
    IF k = 0 THEN S
    ELSE ConnectedWithin(U, S \cup {e[2] : e \in {x \in BothWays(U) : x[1] \in S}}, k - 1)

Connects(U, K) == K = {} \/ ConnectedWithin(U, {Min(K)}, Cardinality(K)) = K

IsUndirectedInput(gr, N, W) ==
    \E n \in 1..N : \E U \in SUBSET UndirectedEdges(1..n) :
        /\ Connects(U, 1..n)
        /\ \E a \in AdjMaps(1..n, BothWays(U)) : \E w \in [U -> W] :
              gr = [adj |-> a,
                    wt |-> [e \in BothWays(U) |->
                               IF e[1] < e[2] THEN w[e] ELSE w[<<e[2], e[1]>>]]]

RECURSIVE SumWeights(_, _)
SumWeights(gr, T) ==
    IF T = {} THEN 0
    ELSE LET e == CHOOSE x \in T : TRUE
         IN Weight(gr, e[1], e[2]) + SumWeights(gr, T \ {e})

SpanningTrees(gr) ==
    LET K == DOMAIN gr.adj
        U == {e \in UndirectedEdges(K) : IsEdge(gr, e[1], e[2])}
    IN {T \in SUBSET U : Cardinality(T) = Cardinality(K) - 1 /\ Connects(T, K)}

MinimumSpanningWeight(gr) == Min({SumWeights(gr, T) : T \in SpanningTrees(gr)})

\* the conversion of a weight (double) to a priority (int); the weights of
\* the input graphs are whole numbers, which it keeps
ToInt(w) == w

\* for (auto v : g.vertices()) { if (v != s) { ... } }
\* a = [res, res1, Prio, listEntr]
RECURSIVE PrimFirstLoop(_, _, _)
PrimFirstLoop(vl, src, a) ==
    IF vl = <<>> THEN a
    ELSE LET v == Head(vl)
             e == NextAddress(a.Prio)
         IN PrimFirstLoop(Tail(vl), src,
               IF v # src
               THEN [res |-> [a.res EXCEPT !.pred = Put(@, v, NIL)],
                     res1 |-> [a.res1 EXCEPT !.dist = Put(@, v, INF)],
                     Prio |-> insert(a.Prio, e, INF, v),
                     listEntr |-> Append(a.listEntr, e)]
               ELSE a)

\* for (auto eIter : listEntr) { if (eIter->data == v) { if (...) { ... } } }
RECURSIVE PrimEntryLoop(_, _, _, _, _)
PrimEntryLoop(el, u, v, a, gr) ==
    IF el = <<>> THEN a
    ELSE LET eIter == Head(el)
         IN PrimEntryLoop(Tail(el), u, v,
               IF /\ a.Prio.heap[eIter].data = v
                  /\ contains(a.Prio, eIter)
                  /\ Weight(gr, u, v) < Get(a.res1.dist, v, 0)
               THEN [a EXCEPT !.Prio = changePrio(a.Prio, eIter, ToInt(Weight(gr, u, v))).q,
                              !.res.pred = Put(@, v, u)]
               ELSE a,
               gr)

\* for (auto v : g.successors(u)) { for (auto eIter : listEntr) ... }
RECURSIVE PrimForLoop(_, _, _, _)
PrimForLoop(ul, u, a, gr) ==
    IF ul = <<>> THEN a
    ELSE PrimForLoop(Tail(ul), u, PrimEntryLoop(a.listEntr, u, Head(ul), a, gr), gr)

InitPrim ==
    /\ pc = "start"
    /\ IsUndirectedInput(g, MaxV, {1, 2, 3})
    /\ s \in DOMAIN g.adj
    /\ res = [pred |-> EmptyMap]
    /\ loc = [res1 |-> [dist |-> EmptyMap], listEntr |-> <<>>, u |-> NIL]
    /\ out = <<>>
    /\ NoQueue

\* prim up to its while loop
PrimSetup ==
    /\ pc = "start"
    /\ LET a == PrimFirstLoop(Vertices(g), s,
                              [res |-> res, res1 |-> loc.res1, Prio |-> Prio,
                               listEntr |-> loc.listEntr])
       IN /\ res' = [a.res EXCEPT !.pred = Put(@, s, NIL)]
          /\ heap' = a.Prio.heap
          /\ entries' = a.Prio.entries
          /\ loc' = [res1 |-> a.res1, listEntr |-> a.listEntr, u |-> s]
    /\ pc' = "while"
    /\ UNCHANGED <<g, s, out, last, hist, fault>>

\* one round of the while loop of prim
PrimRound ==
    /\ pc = "while"
    /\ ~isEmpty(Prio)
    /\ LET a == PrimForLoop(Successors(g, loc.u), loc.u,
                            [res |-> res, res1 |-> loc.res1, Prio |-> Prio,
                             listEntr |-> loc.listEntr], g)
       IN \E e \in MinimumCandidates(a.Prio) :
             /\ res' = a.res
             /\ heap' = a.Prio.heap
             /\ entries' = EraseBegin(a.Prio, e).entries
             /\ loc' = [loc EXCEPT !.u = a.Prio.heap[e].data]
    /\ UNCHANGED <<pc, g, s, out, last, hist, fault>>

PrimReturn ==
    /\ pc = "while"
    /\ isEmpty(Prio)
    /\ pc' = "done"
    /\ UNCHANGED <<g, s, res, loc, out>>
    /\ UNCHANGED pqVars

NextPrim == PrimSetup \/ PrimRound \/ PrimReturn

SpecPrim == InitPrim /\ [][NextPrim]_vars

\* the edges {pred[v], v}, v # s
PredEdges(r, K, src) ==
    {<<Min({r.pred[v], v}), Max({r.pred[v], v})>> : v \in K \ {src}}

PredIsSpanningTree(gr, r, src) ==
    LET K == DOMAIN gr.adj
    IN /\ DOMAIN r.pred = K
       /\ r.pred[src] = NIL
       /\ \A v \in K \ {src} : r.pred[v] \in K /\ IsEdge(gr, r.pred[v], v)
       /\ Cardinality(PredEdges(r, K, src)) = Cardinality(K) - 1
       /\ Connects(PredEdges(r, K, src), K)

\* C3: on a connected graph with every edge in both directions with equal
\* weight, after prim(g, s, res) the edges (pred[v], v), v # s, are a
\* spanning tree, pred[s] = NIL, and the weight of the tree is the least
\* weight of a spanning tree.
C3_PrimMinimumSpanningTree ==
    pc = "done" =>
        /\ PredIsSpanningTree(g, res, s)
        /\ SumWeights(g, PredEdges(res, DOMAIN g.adj, s)) = MinimumSpanningWeight(g)

\* what prim does guarantee: a spanning tree
PrimSpanningTree == pc = "done" => PredIsSpanningTree(g, res, s)

\* the test against res1.dist never fails: res1.dist[v] stays INF
PrimDistStaysInf ==
    \A v \in DOMAIN loc.res1.dist : loc.res1.dist[v] = INF

(***************************************************************************)
(* Specification of PrioQueue: two queue objects and the calls of their    *)
(* member functions, in any order, with any priority and any handle: the   *)
(* null pointer or an Entry created so far (in this queue, in the other    *)
(* queue, or in no queue any more).  new returns any free address.         *)
(***************************************************************************)
Queues == {1, 2}
Addresses == 1..MaxAddr
Prios == {1, 2}
Handles == {0} \cup DOMAIN heap

QueueAt(qi) == [entries |-> entries[qi], heap |-> heap]

\* a call of count/erase with the null pointer on a set that is not empty
\* calls LessThan, which reads e->prio of the null pointer: undefined
\* behaviour (the call may fault, or go on with some value for the priority
\* and then find no equivalent element)
NullDereferenced(qi, e) == e = 0 /\ entries[qi] # {}

Call(name, qi, e, r) ==
    [op |-> name, q |-> qi, e |-> e, ret |-> r, before |-> entries[qi]]

InitQueue ==
    /\ pc = "run"
    /\ g = [adj |-> EmptyMap, wt |-> EmptyMap]
    /\ s = NIL
    /\ res = EmptyMap
    /\ loc = EmptyMap
    /\ out = <<>>
    /\ heap = EmptyMap
    /\ entries = [qi \in Queues |-> {}]
    /\ last = [op |-> "none", q |-> 1, e |-> 0, ret |-> FALSE, before |-> {}]
    /\ hist = [ins |-> [qi \in Queues |-> 0], del |-> [qi \in Queues |-> 0],
               set |-> EmptyMap]
    /\ fault = FALSE

QueueInsert ==
    /\ ~fault
    /\ \E qi \in Queues, p \in Prios, a \in Addresses \ DOMAIN heap :
          LET Q == insert(QueueAt(qi), a, p, NIL)
          IN /\ heap' = Q.heap
             /\ entries' = [entries EXCEPT ![qi] = Q.entries]
             /\ last' = Call("insert", qi, a, a)
             /\ hist' = [hist EXCEPT !.ins[qi] = @ + 1, !.set = Put(@, a, p)]
    /\ UNCHANGED <<pc, fault>>
    /\ UNCHANGED algVars

QueueIsEmpty ==
    /\ ~fault
    /\ \E qi \in Queues : last' = Call("isEmpty", qi, 0, isEmpty(QueueAt(qi)))
    /\ UNCHANGED <<pc, heap, entries, hist, fault>>
    /\ UNCHANGED algVars

QueueMinimum ==
    /\ ~fault
    /\ \E qi \in Queues : last' = Call("minimum", qi, 0, minimum(QueueAt(qi)))
    /\ UNCHANGED <<pc, heap, entries, hist, fault>>
    /\ UNCHANGED algVars

QueueExtractMinimum ==
    /\ ~fault
    /\ \E qi \in Queues :
          LET e == minimum(QueueAt(qi))
          IN /\ entries' = [entries EXCEPT ![qi] =
                               IF e # 0 THEN EraseBegin(QueueAt(qi), e).entries ELSE @]
             /\ last' = Call("extractMinimum", qi, 0, e)
             /\ hist' = [hist EXCEPT !.del[qi] = IF e # 0 THEN @ + 1 ELSE @]
    /\ UNCHANGED <<pc, heap, fault>>
    /\ UNCHANGED algVars

QueueContains ==
    /\ ~fault
    /\ \E qi \in Queues, e \in Handles :
          IF NullDereferenced(qi, e)
          THEN /\ fault' \in BOOLEAN
               /\ last' = Call("contains", qi, e, FALSE)
          ELSE /\ fault' = fault
               /\ last' = Call("contains", qi, e, e # 0 /\ contains(QueueAt(qi), e))
    /\ UNCHANGED <<pc, heap, entries, hist>>
    /\ UNCHANGED algVars

QueueRemove ==
    /\ ~fault
    /\ \E qi \in Queues, e \in Handles :
          IF NullDereferenced(qi, e)
          THEN /\ fault' \in BOOLEAN
               /\ last' = Call("remove", qi, e, FALSE)
               /\ UNCHANGED <<entries, hist>>
          ELSE LET r == IF e = 0 THEN [q |-> QueueAt(qi), ret |-> FALSE]
                        ELSE remove(QueueAt(qi), e)
               IN /\ fault' = fault
                  /\ entries' = [entries EXCEPT ![qi] = r.q.entries]
                  /\ last' = Call("remove", qi, e, r.ret)
                  /\ hist' = [hist EXCEPT !.del[qi] = IF r.ret THEN @ + 1 ELSE @]
    /\ UNCHANGED <<pc, heap>>
    /\ UNCHANGED algVars

QueueChangePrio ==
    /\ ~fault
    /\ \E qi \in Queues, e \in Handles, p \in Prios :
          IF NullDereferenced(qi, e)
          THEN /\ fault' \in BOOLEAN
               /\ last' = Call("changePrio", qi, e, FALSE)
               /\ UNCHANGED <<heap, entries, hist>>
          ELSE LET r == IF e = 0 THEN [q |-> QueueAt(qi), ret |-> FALSE]
                        ELSE changePrio(QueueAt(qi), e, p)
               IN /\ fault' = fault
                  /\ heap' = r.q.heap
                  /\ entries' = [entries EXCEPT ![qi] = r.q.entries]
                  /\ last' = Call("changePrio", qi, e, r.ret)
                  /\ hist' = [hist EXCEPT !.set = IF r.ret THEN Put(@, e, p) ELSE @]
    /\ UNCHANGED pc
    /\ UNCHANGED algVars

NextQueue ==
    \/ QueueInsert
    \/ QueueIsEmpty
    \/ QueueMinimum
    \/ QueueExtractMinimum
    \/ QueueContains
    \/ QueueRemove
    \/ QueueChangePrio

SpecQueue == InitQueue /\ [][NextQueue]_vars

\* C9: extractMinimum on a queue that is not empty returns and detaches
\* exactly one entry, whose priority (as last set by insert or by a
\* successful changePrio) is at most the priority of every entry left in the
\* queue; entries of equal priority are never merged: the number of entries
\* of a queue is the number of its inserts minus the number of its
\* successful remove and extractMinimum calls.
C9_ExtractMinimum ==
    /\ \A qi \in Queues : Cardinality(entries[qi]) = hist.ins[qi] - hist.del[qi]
    /\ \A e \in DOMAIN heap : heap[e].prio = hist.set[e]
    /\ (last.op = "extractMinimum" /\ last.before # {}) =>
          /\ last.ret \in last.before
          /\ entries[last.q] = last.before \ {last.ret}
          /\ \A e \in entries[last.q] : hist.set[last.ret] <= hist.set[e]

\* extractMinimum has just returned an entry of a queue that still holds an
\* entry of the same priority and one of a higher priority, after an earlier
\* removal from that queue
C9_Witness ==
    /\ last.op = "extractMinimum"
    /\ last.ret # 0
    /\ \E e \in entries[last.q] : hist.set[e] = hist.set[last.ret]
    /\ \E e \in entries[last.q] : hist.set[e] > hist.set[last.ret]
    /\ hist.del[last.q] >= 1

AbsentHandleCall ==
    /\ last.op \in {"contains", "remove", "changePrio"}
    /\ last.e \notin last.before

FailedSoftly ==
    /\ ~fault
    /\ last.ret = FALSE
    /\ entries[last.q] = last.before
    /\ last.e # 0 => heap[last.e].prio = hist.set[last.e]

\* C10: in every state of the queue, contains, remove and changePrio called
\* with a handle that is not in the queue (null, detached, or of another
\* queue) return false without a fault and leave the entries of the queue
\* and the priority of that entry unchanged.
C10_AbsentHandleFailsSoftly == AbsentHandleCall => FailedSoftly

\* what the queue does guarantee: the same for every handle but the null
\* pointer, and for the null pointer on an empty queue
NonNullAbsentHandleFailsSoftly ==
    (AbsentHandleCall /\ (last.e # 0 \/ last.before = {})) => FailedSoftly

=============================================================================
